---- MODULE Spec2Model ----
(***************************************************************************)
(* GroupableTreeWidget (src/widgets/groupable_tree_widget.py) together     *)
(* with the AdvancedFilterSearch bar attached to it                        *)
(* (src/widgets/advanced_filter_search_widget.py; the older variant of its *)
(* matcher lives in src/AdvancedFilterSearch.py), the SimpleSearchEdit     *)
(* (src/widgets/simple_search_widget.py) and the HighlightItemDelegate     *)
(* (src/widgets/item_delegate.py) the highlights are kept in.              *)
(*                                                                         *)
(* The tree is kept as Qt keeps it: a list of top-level items and a list   *)
(* of children per item.  Item-list primitives have their plain meaning    *)
(* (the constructor with a parent and addTopLevelItems/addChild append,    *)
(* take* removes); the view's own re-ordering by a sort indicator is the   *)
(* "separately applied sort" and is not part of this model.                *)
(* Strings are sequences of one-character strings, so that substring,      *)
(* prefix, suffix and letter case are computed, not assumed.               *)
(***************************************************************************)
EXTENDS Integers, Sequences, FiniteSets, TLC

VARIABLES
    items,                  \* live TreeWidgetItem objects: node -> [id, data]
    topLevel,               \* the tree's top-level items, in order
    children,               \* node -> its child items, in order
    hidden,                 \* node -> QTreeWidgetItem.isHidden()
    grouped_column_name,    \* GroupableTreeWidget.grouped_column_name
    columnHidden,           \* column index -> isColumnHidden
    id_to_tree_item,        \* GroupableTreeWidget.id_to_tree_item
    filter_criteria_list,   \* FilterTreeWidget.filter_criteria_list
    filter_count,           \* the n of the last filter_count_changed(n)
    target_model_indexes,           \* HighlightItemDelegate.target_model_indexes
    target_focused_model_indexes,   \* HighlightItemDelegate.target_focused_model_indexes
    search_input,           \* AdvancedFilterSearch: column, condition, keyword, options
    search_edit,            \* SimpleSearchEdit: text, is_active, _all_match_items
    connected,              \* the widgets built on the tree widget
    settings,               \* the QSettings group save_state writes
    extraction,             \* TextExtraction: a keyword string and its terms
    filter_widgets,         \* the FilterWidget popups of the program
    op,                     \* history: the last operation called and its argument
    before_group            \* history: the rows before the last group_by_column

vars == <<items, topLevel, children, hidden, grouped_column_name, columnHidden,
          id_to_tree_item, filter_criteria_list, filter_count, target_model_indexes,
          target_focused_model_indexes, search_input, search_edit, connected,
          settings, extraction, filter_widgets, op, before_group>>

----------------------------------------------------------------------------
(* Bounds *)

MaxRows == 3

MaxFilterRows == 2

MaxAdds == 2
MaxKeywordLen == 4

----------------------------------------------------------------------------
(* Values, strings *)

NoneV == [t |-> "none", n |-> 0, s |-> <<>>]

IntV(n) == [t |-> "int", n |-> n, s |-> <<>>]

StrV(s) == [t |-> "str", n |-> 0, s |-> s]

DigitChars == <<"0", "1", "2", "3", "4", "5", "6", "7", "8", "9">>

RECURSIVE IntStr(_)
IntStr(n) ==
    IF n < Len(DigitChars) THEN <<DigitChars[n + 1]>>
    ELSE IntStr(n \div Len(DigitChars)) \o <<DigitChars[(n % Len(DigitChars)) + 1]>>

\* str(value), as the item constructor applies it to every entry of its data list
Str(v) ==
    CASE v.t = "int" -> IntStr(v.n)
      [] v.t = "str" -> v.s
      [] OTHER -> <<"N", "o", "n", "e">>

\* Python truthiness of a value: `not item_data`
Falsy(v) ==
    CASE v.t = "int" -> v.n = 0
      [] v.t = "str" -> v.s = <<>>
      [] OTHER -> TRUE

OTHERS == <<"_", "o", "t", "h", "e", "r", "s">>

column_name_list == <<"id", "Name", "City">>

Columns == 0 .. (Len(column_name_list) - 1)

\* the values a row's dictionary can hold, per column name
NameValues == {<<"a">>, <<"A", "b">>}

CityValues == {<<>>, <<"x">>, OTHERS}

ItemData == [Name : NameValues, City : CityValues]

SeqToSet(s) == {s[i] : i \in 1 .. Len(s)}

RECURSIVE SelectFrom(_, _)
\* [x for x in s if x in keep]
SelectFrom(s, keep) ==
    IF s = <<>> THEN <<>>
    ELSE (IF Head(s) \in keep THEN <<Head(s)>> ELSE <<>>) \o SelectFrom(Tail(s), keep)

----------------------------------------------------------------------------
(* TreeWidgetItem *)

\* row items are numbered from 1 as they are created, group items from -1
\* downwards; 0 stands for no item
NewGroupNode(w) == 0 - (Cardinality({n \in DOMAIN w.items : n < 0}) + 1)

\* TreeWidgetItem(parent, item_data: dict, item_id): the data list is the id
\* followed by the dictionary's value for each further column ('' if missing)
RowItem(item_id, item_data) ==
    [id |-> IntV(item_id),
     data |-> <<IntV(item_id), StrV(item_data.Name), StrV(item_data.City)>>]

\* TreeWidgetItem(parent, [group_name]): a one-entry data list, no id
GroupItem(group_name) ==
    [id |-> NoneV, data |-> <<group_name, NoneV, NoneV>>]

IsGroupItem(it) == it.id = NoneV

\* item.data(column, UserRole)
UserData(it, column) == it.data[column + 1]

\* item.text(column): the constructor's str() of the entry, '' where there is none
Text(it, column) ==
    IF it.data[column + 1] = NoneV THEN <<>> ELSE Str(it.data[column + 1])

----------------------------------------------------------------------------
(* The widget as one value, so that the methods can be chained *)

Widget ==
    [items |-> items, topLevel |-> topLevel, children |-> children,
     hidden |-> hidden, grouped_column_name |-> grouped_column_name,
     columnHidden |-> columnHidden]

\* item.parent(): 0 stands for None
Parent(w, n) ==
    IF \E g \in DOMAIN w.children : n \in SeqToSet(w.children[g])
    THEN CHOOSE g \in DOMAIN w.children : n \in SeqToSet(w.children[g])
    ELSE 0

RECURSIVE get_child_level(_, _)
get_child_level(w, n) ==
    IF Parent(w, n) = 0 THEN 0 ELSE 1 + get_child_level(w, Parent(w, n))

RECURSIVE traverse_items(_, _)
\* depth first, each item followed by its own children
traverse_items(w, seq) ==
    IF seq = <<>> THEN <<>>
    ELSE <<Head(seq)>> \o traverse_items(w, w.children[Head(seq)])
                       \o traverse_items(w, Tail(seq))

get_all_items(w) == traverse_items(w, w.topLevel)

get_all_items_at_child_level(w, child_level) ==
    IF child_level = 0 THEN w.topLevel
    ELSE SelectFrom(get_all_items(w),
                    {n \in DOMAIN w.items : get_child_level(w, n) = child_level})

get_column_index(column_name) ==
    CHOOSE i \in Columns : column_name_list[i + 1] = column_name

----------------------------------------------------------------------------
(* Grouping *)

\* the dictionary of _create_item_groups as a sequence of [key, items] entries
\* in insertion order (a Python dict keeps its keys in insertion order)
DictKeys(groups) == {groups[i].key : i \in 1 .. Len(groups)}

DictIndex(groups, key) == CHOOSE i \in 1 .. Len(groups) : groups[i].key = key

\* `if not item_data: item_data = '_others'`
GroupKey(item_data) == IF Falsy(item_data) THEN StrV(OTHERS) ELSE item_data

RECURSIVE CreateItemGroupsLoop(_, _, _, _)
CreateItemGroupsLoop(w, data, i, groups) ==
    IF i > Len(data) THEN groups
    ELSE LET item_data == GroupKey(data[i])
             item == w.topLevel[i]
         IN  CreateItemGroupsLoop(w, data, i + 1,
                 IF item_data \in DictKeys(groups)
                 THEN [groups EXCEPT ![DictIndex(groups, item_data)].items =
                                          Append(@, item)]
                 ELSE Append(groups, [key |-> item_data, items |-> <<item>>]))

\* variant: the group created last comes first
_create_item_groups_last_first(w, data) ==
    LET groups == CreateItemGroupsLoop(w, data, 1, <<>>)
    IN  [k \in 1 .. Len(groups) |-> groups[Len(groups) + 1 - k]]

_create_item_groups(w, data) == CreateItemGroupsLoop(w, data, 1, <<>>)

\* the items list without the item n (takeTopLevelItem / takeChild of its row)
Take(seq, n) == SelectFrom(seq, SeqToSet(seq) \ {n})

RECURSIVE UngroupLoop(_, _)
\* for group_item in group_item_list: takeChildren, addTopLevelItems,
\* takeTopLevelItem(indexOfTopLevelItem(group_item))
UngroupLoop(w, group_item_list) ==
    IF group_item_list = <<>> THEN w
    ELSE LET group_item == Head(group_item_list)
             child_items == w.children[group_item]
         IN  UngroupLoop(
                 [w EXCEPT !.children[group_item] = <<>>,
                           !.topLevel = Take(@ \o child_items, group_item)],
                 Tail(group_item_list))

\* the objects nothing refers to any more are dropped: the group items that
\* were taken out of the tree.  A row item stays alive (id_to_tree_item).
DropGroupItems(w) ==
    LET keep == {n \in DOMAIN w.items : ~IsGroupItem(w.items[n])}
    IN  [w EXCEPT !.items = [n \in keep |-> w.items[n]],
                  !.children = [n \in keep |-> w.children[n]],
                  !.hidden = [n \in keep |-> w.hidden[n]]]

RECURSIVE UngroupLoopFront(_, _)
UngroupLoopFront(w, group_item_list) ==
    IF group_item_list = <<>> THEN w
    ELSE LET group_item == Head(group_item_list)
             child_items == w.children[group_item]
         IN  UngroupLoopFront(
                 [w EXCEPT !.children[group_item] = <<>>,
                           !.topLevel = Take(child_items \o @, group_item)],
                 Tail(group_item_list))

\* variant: the children of each group go to the front of the top level
ungroup_all_body_front(w) ==
    IF w.grouped_column_name = "" THEN w
    ELSE LET column_index == get_column_index(w.grouped_column_name)
             shown == [w EXCEPT !.columnHidden[column_index] = FALSE]
             flat == UngroupLoopFront(shown, shown.topLevel)
         IN  [DropGroupItems(flat) EXCEPT !.grouped_column_name = ""]

\* ungroup_all up to, not including, the emit of ungrouped_all
ungroup_all_body(w) ==
    IF w.grouped_column_name = "" THEN w
    ELSE LET column_index == get_column_index(w.grouped_column_name)
             shown == [w EXCEPT !.columnHidden[column_index] = FALSE]
             flat == UngroupLoop(shown, shown.topLevel)
         IN  [DropGroupItems(flat) EXCEPT !.grouped_column_name = ""]

RECURSIVE MoveItemsFront(_, _, _)
\* variant: each item becomes the first child of the group item
MoveItemsFront(w, group_item, its) ==
    IF its = <<>> THEN w
    ELSE LET item == Head(its)
             original_parent == Parent(w, item)
             taken == IF original_parent # 0
                      THEN [w EXCEPT !.children[original_parent] = Take(@, item)]
                      ELSE [w EXCEPT !.topLevel = Take(@, item)]
         IN  MoveItemsFront([taken EXCEPT !.children[group_item] = <<item>> \o @],
                            group_item, Tail(its))

RECURSIVE MoveItems(_, _, _)
\* for item in items: take it from its original parent, group_item.addChild
MoveItems(w, group_item, its) ==
    IF its = <<>> THEN w
    ELSE LET item == Head(its)
             original_parent == Parent(w, item)
             taken == IF original_parent # 0
                      THEN [w EXCEPT !.children[original_parent] = Take(@, item)]
                      ELSE [w EXCEPT !.topLevel = Take(@, item)]
         IN  MoveItems([taken EXCEPT !.children[group_item] = Append(@, item)],
                       group_item, Tail(its))

RECURSIVE GroupLoop(_, _, _)
\* for group_name, items in groups.items(): create the group item, move the items
GroupLoop(w, groups, k) ==
    IF k > Len(groups) THEN w
    ELSE LET group_item == NewGroupNode(w)
             created ==
                 [w EXCEPT !.items = (group_item :> GroupItem(groups[k].key)) @@ @,
                           !.children = (group_item :> <<>>) @@ @,
                           !.hidden = (group_item :> FALSE) @@ @,
                           !.topLevel = Append(@, group_item)]
         IN  GroupLoop(MoveItems(created, group_item, groups[k].items), groups, k + 1)

\* group_by_column after its leading ungroup_all() and up to, not including,
\* the emit of grouped_by_column.  headerItem().text(column) is the column's
\* name: label 0 is only ever changed while grouped and ungroup_all resets it.
group_flat(w, column) ==
    LET named == [w EXCEPT !.columnHidden[column] = TRUE,
                           !.grouped_column_name = column_name_list[column + 1]]
        data == [row \in 1 .. Len(named.topLevel) |->
                     UserData(named.items[named.topLevel[row]], column)]
        groups == _create_item_groups(named, data)
    IN  GroupLoop(named, groups, 1)

----------------------------------------------------------------------------
(* Matching: QTreeWidget.findItems(text, flags, column) *)

Lower(c) ==
    CASE c = "A" -> "a"
      [] c = "B" -> "b"
      [] c = "X" -> "x"
      [] OTHER -> c

LowerStr(s) == [i \in 1 .. Len(s) |-> Lower(s[i])]

\* string comparison under Qt.CaseSensitive / Qt.CaseInsensitive
Fold(s, is_case_sensitive) == IF is_case_sensitive THEN s ELSE LowerStr(s)

StartsWith(t, k) == Len(k) <= Len(t) /\ SubSeq(t, 1, Len(k)) = k

EndsWith(t, k) == Len(k) <= Len(t) /\ SubSeq(t, Len(t) - Len(k) + 1, Len(t)) = k

Contains(t, k) ==
    \E i \in 1 .. (Len(t) + 1) : i + Len(k) - 1 <= Len(t) /\ SubSeq(t, i, i + Len(k) - 1) = k

RECURSIVE GlobMatch(_, _)
\* the whole text against a wildcard pattern: * any run of characters, ? any one
GlobMatch(p, t) ==
    IF p = <<>> THEN t = <<>>
    ELSE IF Head(p) = "*"
         THEN GlobMatch(Tail(p), t) \/ (t # <<>> /\ GlobMatch(p, Tail(t)))
         ELSE t # <<>> /\ (Head(p) = "?" \/ Head(p) = Head(t)) /\ GlobMatch(Tail(p), Tail(t))

\* a pattern the regular expression engine accepts: a quantifier needs an item
RegexValid(p) ==
    \A i \in 1 .. Len(p) : p[i] = "*" => (i > 1 /\ p[i - 1] # "*")

RECURSIVE RegexHere(_, _)
\* the pattern matches a prefix of the text: characters, . and a postfix *
RegexHere(p, t) ==
    IF p = <<>> THEN TRUE
    ELSE IF Len(p) >= 2 /\ p[2] = "*"
         THEN RegexHere(SubSeq(p, 3, Len(p)), t)
              \/ (t # <<>> /\ (Head(p) = "." \/ Head(p) = Head(t)) /\ RegexHere(p, Tail(t)))
         ELSE t # <<>> /\ (Head(p) = "." \/ Head(p) = Head(t)) /\ RegexHere(Tail(p), Tail(t))

\* the pattern matches somewhere in the text; an invalid pattern matches nothing
RegexSearch(p, t) ==
    RegexValid(p) /\ \E i \in 1 .. (Len(t) + 1) : RegexHere(p, SubSeq(t, i, Len(t)))

\* the keys of CONDITION_TO_MATCH_FLAG_DICT
Conditions == {"contains", "starts_with", "ends_with", "exact_match", "wild_card", "reg_exp"}

\* one item against the keyword under the match flag of the condition.
\* MatchExactly compares the two values themselves (case is never ignored);
\* the other flags compare strings under the case sensitivity of the flags.
\* "fixed_string" stands for MatchFixedString, which SimpleSearchEdit uses.
ItemMatches(it, column, condition, keyword, is_case_sensitive) ==
    LET t == Fold(Text(it, column), is_case_sensitive)
        k == Fold(keyword, is_case_sensitive)
    IN  CASE condition = "contains" -> Contains(t, k)
          [] condition = "starts_with" -> StartsWith(t, k)
          [] condition = "ends_with" -> EndsWith(t, k)
          [] condition = "exact_match" ->
                 UserData(it, column) # NoneV /\ Text(it, column) = keyword
          [] condition = "fixed_string" -> t = k
          [] condition = "wild_card" -> GlobMatch(k, t)
          [] condition = "reg_exp" -> RegexSearch(k, t)

RECURSIVE FindIn(_, _, _, _, _, _, _)
\* the rows of one parent in order, each followed by its subtree's matches
\* when the flags hold MatchRecursive
FindIn(w, seq, column, condition, keyword, is_case_sensitive, recursive) ==
    IF seq = <<>> THEN <<>>
    ELSE (IF ItemMatches(w.items[Head(seq)], column, condition, keyword, is_case_sensitive)
          THEN <<Head(seq)>> ELSE <<>>)
         \o (IF recursive
             THEN FindIn(w, w.children[Head(seq)], column, condition, keyword,
                         is_case_sensitive, recursive)
             ELSE <<>>)
         \o FindIn(w, Tail(seq), column, condition, keyword, is_case_sensitive, recursive)

findItems(w, keyword, condition, is_case_sensitive, recursive, column) ==
    FindIn(w, w.topLevel, column, condition, keyword, is_case_sensitive, recursive)

----------------------------------------------------------------------------
(* AdvancedFilterSearch *)

\* AdvancedFilterSearch.column_names: the header texts read when the bar is built
column_names == column_name_list

\* variant: the items of either list
intersection_either(item_list_1, item_list_2) ==
    item_list_1 \o SelectFrom(item_list_2, SeqToSet(item_list_2) \ SeqToSet(item_list_1))

intersection(item_list_1, item_list_2) == SelectFrom(item_list_1, SeqToSet(item_list_2))

\* the outcome of a call: the list it returns, or the exception it raises
Returned(its) == [error |-> "", items |-> its]

Raised(exception) == [error |-> exception, items |-> <<>>]

\* variant: the matches are not restricted to the child level
find_match_items_any_level(w, rule) ==
    LET grouped == w.grouped_column_name # ""
        match_items == findItems(w, rule.keyword, rule.condition,
                                 rule.is_case_sensitive, grouped,
                                 get_column_index(rule.column))
    IN  Returned(IF rule.is_negate
                 THEN SelectFrom(get_all_items_at_child_level(w, IF grouped THEN 1 ELSE 0),
                                 SeqToSet(get_all_items(w)) \ SeqToSet(match_items))
                 ELSE match_items)

\* variant: a negated rule returns the unmatched items of every level
find_match_items_negate_all(w, rule) ==
    LET grouped == w.grouped_column_name # ""
        all_items_at_child_level ==
            get_all_items_at_child_level(w, IF grouped THEN 1 ELSE 0)
        match_items_at_child_level ==
            intersection(all_items_at_child_level,
                         findItems(w, rule.keyword, rule.condition,
                                   rule.is_case_sensitive, grouped,
                                   get_column_index(rule.column)))
    IN  Returned(IF rule.is_negate
                 THEN SelectFrom(get_all_items(w),
                                 SeqToSet(get_all_items(w))
                                     \ SeqToSet(match_items_at_child_level))
                 ELSE match_items_at_child_level)

\* widgets/advanced_filter_search_widget.py: child level and recursion depend
\* only on whether the tree is grouped
\* variant: the items are searched for among the top-level items, grouped or not
find_match_items_top_level(w, rule) ==
    IF rule.condition \notin Conditions THEN Raised("KeyError")
    ELSE IF rule.column \notin SeqToSet(column_names) THEN Raised("ValueError")
    ELSE LET all_items_at_child_level == get_all_items_at_child_level(w, 0)
             match_items == findItems(w, rule.keyword, rule.condition,
                                      rule.is_case_sensitive, w.grouped_column_name # "",
                                      get_column_index(rule.column))
             match_items_at_child_level ==
                 intersection(all_items_at_child_level, match_items)
         IN  Returned(IF rule.is_negate
                      THEN SelectFrom(all_items_at_child_level,
                                      SeqToSet(all_items_at_child_level)
                                          \ SeqToSet(match_items_at_child_level))
                      ELSE match_items_at_child_level)

find_match_items(w, rule) ==
    IF rule.condition \notin Conditions THEN Raised("KeyError")
    ELSE IF rule.column \notin SeqToSet(column_names) THEN Raised("ValueError")
    ELSE LET grouped == w.grouped_column_name # ""
             column_index == get_column_index(rule.column)
             child_level == IF grouped THEN 1 ELSE 0
             all_items_at_child_level == get_all_items_at_child_level(w, child_level)
             match_items == findItems(w, rule.keyword, rule.condition,
                                      rule.is_case_sensitive, grouped, column_index)
             match_items_at_child_level ==
                 intersection(all_items_at_child_level, match_items)
         IN  Returned(IF rule.is_negate
                      THEN SelectFrom(all_items_at_child_level,
                                      SeqToSet(all_items_at_child_level)
                                          \ SeqToSet(match_items_at_child_level))
                      ELSE match_items_at_child_level)

\* AdvancedFilterSearch.py: a rule on the grouped column is matched on the
\* group items' own column 0, at level 0 and not recursively
find_match_items_legacy(w, rule) ==
    IF rule.condition \notin Conditions THEN Raised("KeyError")
    ELSE IF ~(w.grouped_column_name # "" /\ rule.column = w.grouped_column_name)
            /\ rule.column \notin SeqToSet(column_names) THEN Raised("ValueError")
    ELSE LET on_group == w.grouped_column_name # "" /\ rule.column = w.grouped_column_name
             below_group == w.grouped_column_name # "" /\ rule.column # w.grouped_column_name
             column_index == IF on_group THEN 0 ELSE get_column_index(rule.column)
             child_level == IF below_group THEN 1 ELSE 0
             all_items_at_child_level == get_all_items_at_child_level(w, child_level)
             match_items == findItems(w, rule.keyword, rule.condition,
                                      rule.is_case_sensitive, below_group, column_index)
             match_items_at_child_level ==
                 intersection(all_items_at_child_level, match_items)
         IN  Returned(IF rule.is_negate
                      THEN SelectFrom(all_items_at_child_level,
                                      SeqToSet(all_items_at_child_level)
                                          \ SeqToSet(match_items_at_child_level))
                      ELSE match_items_at_child_level)

RECURSIVE show_matching_items(_, _)
\* unhide each item, its parent if it has one, and all of its children
show_matching_items(w, match_items) ==
    IF match_items = <<>> THEN w
    ELSE LET item == Head(match_items)
             shown == {item} \cup (IF Parent(w, item) # 0 THEN {Parent(w, item)} ELSE {})
                             \cup SeqToSet(w.children[item])
         IN  show_matching_items(
                 [w EXCEPT !.hidden = [n \in DOMAIN @ |-> IF n \in shown THEN FALSE ELSE @[n]]],
                 Tail(match_items))

RECURSIVE IntersectLoop(_, _, _)
\* the running intersection over the criteria; an exception ends the loop
IntersectLoop(w, criteria, intersect_match_items) ==
    IF criteria = <<>> THEN Returned(intersect_match_items)
    ELSE LET found == find_match_items(w, Head(criteria))
         IN  IF found.error # "" THEN found
             ELSE IntersectLoop(w, Tail(criteria),
                                intersection(found.items, intersect_match_items))

\* variant: only the rule added last counts
intersect_match_items_last(w, criteria) ==
    IF criteria = <<>> THEN Returned(get_all_items(w))
    ELSE find_match_items(w, criteria[Len(criteria)])

\* the list _apply_filters passes to show_matching_items
intersect_match_items(w, criteria) == IntersectLoop(w, criteria, get_all_items(w))

\* variant: only the matching items themselves are shown
_apply_filters_items_only(w, criteria) ==
    LET shown == SeqToSet(intersect_match_items(w, criteria).items)
    IN  [w EXCEPT !.hidden = [n \in DOMAIN @ |->
                                  IF n \in shown THEN FALSE
                                  ELSE IF n \in SeqToSet(get_all_items(w)) THEN TRUE
                                  ELSE @[n]]]

\* _apply_filters: hide every item, intersect, show the matching items.  An
\* exception raised by find_match_items leaves the method after the hiding.
_apply_filters(w, criteria) ==
    LET all_items == get_all_items(w)
        all_hidden ==
            [w EXCEPT !.hidden = [n \in DOMAIN @ |->
                                      IF n \in SeqToSet(all_items) THEN TRUE ELSE @[n]]]
        result == intersect_match_items(w, criteria)
    IN  IF result.error # "" THEN all_hidden
        ELSE show_matching_items(all_hidden, result.items)

RECURSIVE IntersectLoopLegacy(_, _, _)
IntersectLoopLegacy(w, criteria, intersected) ==
    IF criteria = <<>> THEN Returned(intersected)
    ELSE LET found == find_match_items_legacy(w, Head(criteria))
         IN  IF found.error # "" THEN found
             ELSE IntersectLoopLegacy(w, Tail(criteria),
                                      intersection(found.items, intersected))

\* AdvancedFilterSearch.py, apply_filters: the same steps as _apply_filters
\* around the older find_match_items
apply_filters_legacy(w, criteria) ==
    LET all_items == get_all_items(w)
        all_hidden ==
            [w EXCEPT !.hidden = [n \in DOMAIN @ |->
                                      IF n \in SeqToSet(all_items) THEN TRUE ELSE @[n]]]
        result == IntersectLoopLegacy(w, criteria, all_items)
    IN  IF result.error # "" THEN all_hidden
        ELSE show_matching_items(all_hidden, result.items)

----------------------------------------------------------------------------
(* Highlights.  The target lists of HighlightItemDelegate are attributes of *)
(* the class: every delegate of the program reads and changes the same     *)
(* lists.  They are kept as sets, which is all that paint() asks of them.   *)

\* a QModelIndex: an item of a tree widget and a column.  Tree 1 is the tree
\* widget of this model, tree 2 another GroupableTreeWidget of the program.
\* Item 0 stands for the item of an index whose item has been removed.
ModelIndex(tree, item, column) == [tree |-> tree, item |-> item, column |-> column]

get_shown_column_indexes(w) == {column \in Columns : ~w.columnHidden[column]}

\* TreeWidgetItem.get_model_indexes: one index per shown column
get_model_indexes(w, item) ==
    {ModelIndex(1, item, column) : column \in get_shown_column_indexes(w)}

Targets ==
    [target_model_indexes |-> target_model_indexes,
     target_focused_model_indexes |-> target_focused_model_indexes]

\* HighlightItemDelegate.clear
clear_highlight == [target_model_indexes |-> {}, target_focused_model_indexes |-> {}]

\* GroupableTreeWidget.highlight_items; AdvancedFilterSearch._highlight_items
\* is the same loop after a clear()
highlight_items(w, targets, tree_items, focused_column_index) ==
    [target_model_indexes |->
         targets.target_model_indexes
             \cup UNION {get_model_indexes(w, item) : item \in SeqToSet(tree_items)},
     target_focused_model_indexes |->
         targets.target_focused_model_indexes
             \cup {ModelIndex(1, item, focused_column_index) : item \in SeqToSet(tree_items)}]

\* AdvancedFilterSearch._highlight_search: the lists it leaves.  An exception
\* of find_match_items leaves the method after the reset.
_highlight_search(w, input) ==
    IF input.keyword = <<>> THEN clear_highlight
    ELSE LET found == find_match_items(w, input)
         IN  IF found.error # "" THEN clear_highlight
             ELSE highlight_items(w, clear_highlight, found.items,
                                  get_column_index(input.column))

\* the lists after items were removed from the tree.  An index of a removed
\* item dangles: it may or may not compare equal to the index of an item
\* created later
Dangling(targets, removed, reused) ==
    LET dangle(cells) ==
            {IF ~reused /\ c.tree = 1 /\ c.item \in removed
             THEN [c EXCEPT !.item = 0] ELSE c : c \in cells}
    IN  [target_model_indexes |-> dangle(targets.target_model_indexes),
         target_focused_model_indexes |-> dangle(targets.target_focused_model_indexes)]

SetTargets(targets) ==
    /\ target_model_indexes' = targets.target_model_indexes
    /\ target_focused_model_indexes' = targets.target_focused_model_indexes

----------------------------------------------------------------------------
(* SimpleSearchEdit.  The text is one term, quoted or not.                   *)

NoText == [term |-> <<>>, quoted |-> FALSE]

\* TextExtraction.is_contains_wildcard
is_contains_wildcard(term) == \E i \in 1 .. Len(term) : term[i] \in {"*", "?"}

\* the findItems call of _highlight_search for one term and one column:
\* MatchRecursive with MatchFixedString for a quoted term, MatchWildcard or
\* MatchContains for any other; never MatchCaseSensitive
search_find_items(w, text, column_index) ==
    findItems(w, text.term,
              IF text.quoted THEN "fixed_string"
              ELSE IF is_contains_wildcard(text.term) THEN "wild_card" ELSE "contains",
              FALSE, TRUE, column_index)

RECURSIVE SearchColumnsLoop(_, _, _, _)
\* for column_index in range(columnCount()): find, highlight_items, update
SearchColumnsLoop(w, text, column_index, found) ==
    IF column_index >= Len(column_name_list) THEN found
    ELSE LET match_items == search_find_items(w, text, column_index)
         IN  SearchColumnsLoop(w, text, column_index + 1,
                 [targets |-> highlight_items(w, found.targets, match_items, column_index),
                  matches |-> found.matches \cup SeqToSet(match_items)])

\* SimpleSearchEdit._highlight_search: the lists and the _all_match_items it leaves
search_highlight(w, text) ==
    IF text.term = <<>> THEN [targets |-> clear_highlight, matches |-> {}]
    ELSE SearchColumnsLoop(w, text, 0, [targets |-> clear_highlight, matches |-> {}])

show_all_items(w) ==
    [w EXCEPT !.hidden = [n \in DOMAIN @ |->
                              IF n \in SeqToSet(get_all_items(w)) THEN FALSE ELSE @[n]]]

hide_all_items(w) ==
    [w EXCEPT !.hidden = [n \in DOMAIN @ |->
                              IF n \in SeqToSet(get_all_items(w)) THEN TRUE ELSE @[n]]]

\* GroupableTreeWidget.show_items: the loop of show_matching_items
show_items(w, its) == show_matching_items(w, its)

\* SimpleSearchEdit._apply_search, for the matched items still in the tree
_apply_search(w, matches) ==
    show_items(hide_all_items(w), SelectFrom(get_all_items(w), matches))

----------------------------------------------------------------------------
(* TextExtraction: the terms of a keyword string.  The regular expressions   *)
(* are computed as Python's re computes them: leftmost match, the first      *)
(* alternative that matches, '.' matching any character but a newline.       *)

DQ == "\""
SQ == "'"
NL == "\n"
Whitespace == {" ", "\t", NL}
Separators == {"\t", NL, ",", "|"}

RECURSIVE lstrip(_)
lstrip(text) ==
    IF text # <<>> /\ Head(text) \in Whitespace THEN lstrip(Tail(text)) ELSE text

RECURSIVE rstrip(_)
rstrip(text) ==
    IF text # <<>> /\ text[Len(text)] \in Whitespace
    THEN rstrip(SubSeq(text, 1, Len(text) - 1)) ELSE text

\* str.strip()
strip(text) == rstrip(lstrip(text))

RECURSIVE Find(_, _, _)
\* the first position of the character c in text at or after i, 0 if none
Find(text, c, i) ==
    IF i > Len(text) THEN 0
    ELSE IF text[i] = c THEN i ELSE Find(text, c, i + 1)

\* the end of the match at position i of "(.*?)"|'(.*?)' (dotall false) or of
\* "[^"]*"|'[^']*' (dotall true), 0 if there is none: both end at the next
\* quote of the same kind, and the first cannot cross a newline
MatchAt(text, i, dotall) ==
    IF text[i] \notin {DQ, SQ} THEN 0
    ELSE LET j == Find(text, text[i], i + 1)
         IN  IF j # 0 /\ (dotall \/ Find(SubSeq(text, i + 1, j - 1), NL, 1) = 0)
             THEN j ELSE 0

RECURSIVE finditer(_, _, _)
\* the non-overlapping matches from position i on, left to right
finditer(text, i, dotall) ==
    IF i > Len(text) THEN <<>>
    ELSE LET j == MatchAt(text, i, dotall)
         IN  IF j # 0 THEN <<[start |-> i, end |-> j]>> \o finditer(text, j + 1, dotall)
             ELSE finditer(text, i + 1, dotall)

\* [term.strip() for terms in findall for term in terms if term.strip()]
QuotedContents(text, segments) ==
    SelectSeq([k \in 1 .. Len(segments) |->
                   strip(SubSeq(text, segments[k].start + 1, segments[k].end - 1))],
              LAMBDA term : term # <<>>)

RECURSIVE Pieces(_, _, _)
\* re.split: the text between the matches, from position i on
Pieces(text, segments, i) ==
    IF segments = <<>> THEN <<SubSeq(text, i, Len(text))>>
    ELSE <<SubSeq(text, i, Head(segments).start - 1)>>
             \o Pieces(text, Tail(segments), Head(segments).end + 1)

RECURSIVE SplitLoop(_, _)
SplitLoop(text, piece) ==
    IF text = <<>> THEN <<piece>>
    ELSE IF Head(text) \in Separators THEN <<piece>> \o SplitLoop(Tail(text), <<>>)
    ELSE SplitLoop(Tail(text), Append(piece, Head(text)))

\* [t for t in re.split('[\t\n,|]+', term) if t.strip()]
split_terms(term) == SelectSeq(SplitLoop(term, <<>>), LAMBDA t : strip(t) # <<>>)

RECURSIVE Flatten(_)
Flatten(lists) == IF lists = <<>> THEN <<>> ELSE Head(lists) \o Flatten(Tail(lists))

UnquotedPieces(text, segments) ==
    LET pieces == Pieces(text, segments, 1)
        unquoted_terms == SelectSeq([k \in 1 .. Len(pieces) |-> strip(pieces[k])],
                                    LAMBDA term : term # <<>>)
    IN  Flatten([k \in 1 .. Len(unquoted_terms) |-> split_terms(unquoted_terms[k])])

extract_quoted_terms(keyword) == QuotedContents(keyword, finditer(keyword, 1, FALSE))

extract_unquoted_terms(keyword) == UnquotedPieces(keyword, finditer(keyword, 1, TRUE))

----------------------------------------------------------------------------
(* The methods with the slots their signals run *)

\* ungroup_all; ungrouped_all.emit() runs AdvancedFilterSearch._apply_filters
ungroup_all(w, criteria) ==
    IF w.grouped_column_name = "" THEN w
    ELSE _apply_filters(ungroup_all_body(w), criteria)

\* variant: no ungroup_all() before grouping
group_by_column_nested(w, column, criteria) ==
    _apply_filters(group_flat(w, column), criteria)

\* group_by_column; grouped_by_column.emit() runs _apply_filters
group_by_column(w, column, criteria) ==
    _apply_filters(group_flat(ungroup_all(w, criteria), column), criteria)

\* the row items still in the tree, depth first
RowsOf(w) ==
    SelectFrom(get_all_items(w), {n \in DOMAIN w.items : ~IsGroupItem(w.items[n])})

Snapshot(w, column) ==
    [rows |-> RowsOf(w), grouped |-> w.grouped_column_name, column |-> column]

NoSnapshot == [rows |-> <<>>, grouped |-> "", column |-> -1]

SetWidget(w) ==
    /\ items' = w.items
    /\ topLevel' = w.topLevel
    /\ children' = w.children
    /\ hidden' = w.hidden
    /\ grouped_column_name' = w.grouped_column_name
    /\ columnHidden' = w.columnHidden

----------------------------------------------------------------------------
(* Construction *)

\* a QSettings group nothing was written to
NoSettings == [saved |-> FALSE, header_state |-> <<>>, group_column_name |-> ""]

\* the MultiSelectFilterWidget popups of the program and the texts of their
\* checkable items; two popups may list an item of the same text
FilterWidgets == {1, 2}

ItemTexts(filter_widget) == IF filter_widget = 1 THEN {"p", "q"} ELSE {"q", "r"}

\* the popups as constructed, nothing checked, shown or saved.  checked_state
\* tells whether _saved_state holds the key 'checked_state'; the dictionary
\* under that key is always the default argument of get_checked_state_dict,
\* one object for the class.  applied is history: what was checked at the
\* popup's last Apply, nothing after a Clear.
NoFilterWidgets ==
    [popups |-> [filter_widget \in FilterWidgets |->
                     [shown |-> FALSE, checked |-> {}, _is_filter_applied |-> FALSE,
                      checked_state |-> FALSE, applied |-> {}]],
     checked_state_dict |-> <<>>]

\* no keyword string typed yet
NoExtraction == [keyword |-> <<>>, quoted_terms |-> <<>>, unquoted_terms |-> <<>>]

\* GroupableTreeWidget(column_name_list, id_to_data_dict) with the rows 1..n of
\* the dictionary; the widgets built on it have nothing typed into them yet.
\* search_edit.matches is SimpleSearchEdit._all_match_items without the items
\* removed from the tree since, which removed_matches remembers.
Constructed(n, id_to_data_dict) ==
    /\ items = [i \in 1 .. n |-> RowItem(i, id_to_data_dict[i])]
    /\ topLevel = [i \in 1 .. n |-> i]
    /\ children = [i \in 1 .. n |-> <<>>]
    /\ hidden = [i \in 1 .. n |-> FALSE]
    /\ grouped_column_name = ""
    /\ columnHidden = [c \in Columns |-> FALSE]
    /\ id_to_tree_item = [i \in 1 .. n |-> i]
    /\ filter_criteria_list = <<>>
    /\ filter_count = 0
    /\ target_model_indexes = {}
    /\ target_focused_model_indexes = {}
    /\ search_input = [column |-> "id", condition |-> "contains", keyword |-> <<>>,
                       is_negate |-> FALSE, is_case_sensitive |-> FALSE]
    /\ search_edit = [text |-> NoText, is_active |-> FALSE, matches |-> {},
                      removed_matches |-> FALSE]
    /\ settings = NoSettings
    /\ extraction = NoExtraction
    /\ filter_widgets = NoFilterWidgets
    /\ op = [name |-> "__init__", column |-> 0]
    /\ before_group = NoSnapshot

InitRows(bound, data) ==
    \E n \in 0 .. bound : \E id_to_data_dict \in [1 .. n -> data] :
        /\ Constructed(n, id_to_data_dict)
        /\ connected = {"AdvancedFilterSearch"}

----------------------------------------------------------------------------
(* Actions *)

\* the widget after group_by_column(column) and the slots connected to
\* ungrouped_all and grouped_by_column
GroupedByColumn(column) ==
    IF "AdvancedFilterSearch" \in connected
    THEN group_by_column(Widget, column, filter_criteria_list)
    ELSE group_flat(ungroup_all_body(Widget), column)

\* the widget after ungroup_all() and the slots connected to ungrouped_all
Ungrouped ==
    IF "AdvancedFilterSearch" \in connected
    THEN ungroup_all(Widget, filter_criteria_list)
    ELSE ungroup_all_body(Widget)

\* the group items an ungroup_all() removes from the tree
RemovedItems ==
    IF grouped_column_name = "" THEN {}
    ELSE {n \in SeqToSet(topLevel) : IsGroupItem(items[n])}

\* a group_by_column or ungroup_all has left the widget w.  If it emitted its
\* signal, AdvancedFilterSearch._highlight_search has run where the bar is
\* connected; SimpleSearchEdit connects no slot, its matches and the
\* highlights stay as they are, removed items included.
Restructured(w, emitted) ==
    /\ SetWidget(w)
    /\ IF ~emitted
       THEN UNCHANGED <<target_model_indexes, target_focused_model_indexes, search_edit>>
       ELSE /\ search_edit' =
                   [search_edit EXCEPT
                        !.matches = @ \ RemovedItems,
                        !.removed_matches = @ \/ (search_edit.matches \cap RemovedItems # {})]
            /\ IF "AdvancedFilterSearch" \in connected
               THEN SetTargets(_highlight_search(w, search_input))
               ELSE \E reused \in BOOLEAN :
                        SetTargets(Dangling(Targets, RemovedItems, reused))
    /\ UNCHANGED <<id_to_tree_item, filter_criteria_list, filter_count, search_input,
                   connected,
                   settings, extraction, filter_widgets>>

GroupByColumn(column) ==
    /\ Restructured(GroupedByColumn(column), TRUE)
    /\ op' = [name |-> "group_by_column", column |-> column]
    /\ before_group' = Snapshot(Widget, column)

\* 'Group by this column' of the header's context menu, which is disabled on
\* the first column
MenuGroupBy(column) ==
    /\ column # 0
    /\ Restructured(GroupedByColumn(column), TRUE)
    /\ op' = [name |-> "group_by_column", column |-> column]
    /\ UNCHANGED before_group

UngroupAll ==
    /\ Restructured(Ungrouped, grouped_column_name # "")
    /\ op' = [name |-> "ungroup_all", column |-> 0]
    /\ UNCHANGED before_group

\* add_items({item_id: item_data}): a new item at the end of the top level
add_items(w, item_id, item_data) ==
    LET tree_item == Cardinality({n \in DOMAIN w.items : n > 0}) + 1
    IN  [w EXCEPT !.items = (tree_item :> RowItem(item_id, item_data)) @@ @,
                  !.children = (tree_item :> <<>>) @@ @,
                  !.hidden = (tree_item :> FALSE) @@ @,
                  !.topLevel = Append(@, tree_item)]

AddItems(item_id, item_data) ==
    /\ Cardinality({n \in DOMAIN items : n > 0}) < MaxAdds
    /\ SetWidget(add_items(Widget, item_id, item_data))
    /\ id_to_tree_item' =
           (item_id :> (Cardinality({n \in DOMAIN items : n > 0}) + 1)) @@ id_to_tree_item
    /\ op' = [name |-> "add_items", column |-> 0]
    /\ UNCHANGED <<filter_criteria_list, before_group, filter_count, target_model_indexes,
                   target_focused_model_indexes, search_input, search_edit, connected,
                   settings, extraction, filter_widgets>>

\* variant: the criteria is appended whether or not it is in the list
add_filter_again(criteria_list, filter_criteria) ==
    [list |-> Append(criteria_list, filter_criteria), emitted |-> TRUE]

\* FilterTreeWidget.add_filter: the list it leaves and whether it went on to
\* emit filter_count_changed; a criteria already in the list changes nothing
add_filter(criteria_list, filter_criteria) ==
    IF filter_criteria \in SeqToSet(criteria_list)
    THEN [list |-> criteria_list, emitted |-> FALSE]
    ELSE [list |-> Append(criteria_list, filter_criteria), emitted |-> TRUE]

\* filter_count_changed.emit(len(filter_criteria_list)) runs
\* _update_show_filter_button and _apply_filters
AddFilter(filter_criteria) ==
    LET added == add_filter(filter_criteria_list, filter_criteria)
    IN  /\ "AdvancedFilterSearch" \in connected
        /\ filter_criteria_list' = added.list
        /\ IF added.emitted
           THEN /\ filter_count' = Len(added.list)
                /\ SetWidget(_apply_filters(Widget, added.list))
           ELSE UNCHANGED <<filter_count, items, topLevel, children, hidden,
                            grouped_column_name, columnHidden>>
        /\ op' = [name |-> "add_filter", column |-> 0, emitted |-> added.emitted]
        /\ UNCHANGED <<id_to_tree_item, before_group, target_model_indexes,
                       target_focused_model_indexes, search_input, search_edit, connected,
                   settings, extraction, filter_widgets>>

\* FilterTreeWidget.remove_filter of the i-th filter item
RemoveFilter(i) ==
    /\ "AdvancedFilterSearch" \in connected
    /\ i \in 1 .. Len(filter_criteria_list)
    /\ filter_criteria_list' =
           SubSeq(filter_criteria_list, 1, i - 1)
               \o SubSeq(filter_criteria_list, i + 1, Len(filter_criteria_list))
    /\ filter_count' = Len(filter_criteria_list')
    /\ SetWidget(_apply_filters(Widget, filter_criteria_list'))
    /\ op' = [name |-> "remove_filter", column |-> 0]
    /\ UNCHANGED <<id_to_tree_item, before_group, target_model_indexes,
                   target_focused_model_indexes, search_input, search_edit, connected,
                   settings, extraction, filter_widgets>>

\* FilterTreeWidget.clear_filters
ClearFilters ==
    /\ "AdvancedFilterSearch" \in connected
    /\ filter_criteria_list' = <<>>
    /\ filter_count' = Len(filter_criteria_list')
    /\ SetWidget(_apply_filters(Widget, filter_criteria_list'))
    /\ op' = [name |-> "clear_filters", column |-> 0]
    /\ UNCHANGED <<id_to_tree_item, before_group, target_model_indexes,
                   target_focused_model_indexes, search_input, search_edit, connected,
                   settings, extraction, filter_widgets>>


\* variant: the items stay as the applied search left them
set_inactive_as_applied(w, is_active) == w

\* SimpleSearchEdit.set_inactive: the widget after it; _reset_search shows all
\* items when the search was applied
set_inactive(w, is_active) == IF ~is_active THEN w ELSE show_all_items(w)

\* the user edits the text of the SimpleSearchEdit: editTextChanged runs
\* set_inactive (show_all_items when the search was applied) and then
\* _highlight_search
EditText(text) ==
    LET w == set_inactive(Widget, search_edit.is_active)
        found == search_highlight(w, text)
    IN  /\ "SimpleSearchEdit" \in connected
        /\ text # search_edit.text
        /\ SetWidget(w)
        /\ SetTargets(found.targets)
        /\ search_edit' = [text |-> text, is_active |-> FALSE,
                           matches |-> found.matches, removed_matches |-> FALSE]
        /\ op' = [name |-> "editTextChanged", column |-> 0,
                  was_active |-> search_edit.is_active]
        /\ UNCHANGED <<id_to_tree_item, filter_criteria_list, filter_count, search_input,
                       connected, before_group,
                   settings, extraction, filter_widgets>>

\* Enter or Return in the SimpleSearchEdit: set_active, which returns at once
\* when _all_match_items is empty.  show_items over matches that include
\* removed items may stop at one of them.
PressEnter ==
    /\ "SimpleSearchEdit" \in connected
    /\ IF search_edit.matches = {} /\ ~search_edit.removed_matches
       THEN UNCHANGED <<items, topLevel, children, hidden, grouped_column_name,
                        columnHidden, target_model_indexes,
                        target_focused_model_indexes, search_edit>>
       ELSE /\ \E shown \in SUBSET search_edit.matches :
                   /\ shown = search_edit.matches \/ search_edit.removed_matches
                   /\ SetWidget(_apply_search(Widget, shown))
            /\ SetTargets(clear_highlight)
            /\ search_edit' = [search_edit EXCEPT !.is_active = TRUE]
    /\ op' = [name |-> "set_active", column |-> 0]
    /\ UNCHANGED <<id_to_tree_item, filter_criteria_list, filter_count, search_input,
                   connected, before_group,
                   settings, extraction, filter_widgets>>

\* the user changes the column, the condition or the keyword of the bar:
\* AdvancedFilterSearch._highlight_search
LiveSearch(input) ==
    /\ "AdvancedFilterSearch" \in connected
    /\ search_input' = input
    /\ SetTargets(_highlight_search(Widget, input))
    /\ op' = [name |-> "_highlight_search", column |-> 0]
    /\ UNCHANGED <<items, topLevel, children, hidden, grouped_column_name, columnHidden,
                   id_to_tree_item, filter_criteria_list, filter_count, search_edit,
                   connected, before_group,
                   settings, extraction, filter_widgets>>

\* another GroupableTreeWidget of the program highlights an item of its own
OtherHighlightItems ==
    /\ SetTargets([target_model_indexes |->
                       target_model_indexes \cup {ModelIndex(2, 1, 0), ModelIndex(2, 1, 1)},
                   target_focused_model_indexes |->
                       target_focused_model_indexes \cup {ModelIndex(2, 1, 1)}])
    /\ op' = [name |-> "other.highlight_items", column |-> 0]
    /\ UNCHANGED <<items, topLevel, children, hidden, grouped_column_name, columnHidden,
                   id_to_tree_item, filter_criteria_list, filter_count, search_input,
                   search_edit, connected, before_group,
                   settings, extraction, filter_widgets>>

\* another GroupableTreeWidget of the program clears its highlights
OtherClearHighlight ==
    /\ SetTargets(clear_highlight)
    /\ op' = [name |-> "other.clear_highlight", column |-> 0]
    /\ UNCHANGED <<items, topLevel, children, hidden, grouped_column_name, columnHidden,
                   id_to_tree_item, filter_criteria_list, filter_count, search_input,
                   search_edit, connected, before_group,
                   settings, extraction, filter_widgets>>

\* GroupableTreeWidget.save_state: the header state, which holds the hidden
\* sections, and the grouped column name under the key 'group_column_name'
SaveState ==
    /\ settings' = [saved |-> TRUE, header_state |-> columnHidden,
                    group_column_name |-> grouped_column_name]
    /\ op' = [name |-> "save_state", column |-> 0]
    /\ UNCHANGED <<items, topLevel, children, hidden, grouped_column_name, columnHidden,
                   id_to_tree_item, filter_criteria_list, filter_count,
                   target_model_indexes, target_focused_model_indexes, search_input,
                   search_edit, connected, extraction, filter_widgets, before_group>>

\* GroupableTreeWidget.load_state.  Nothing saved: header_state is the default,
\* the class QByteArray, which restoreState does not take.  Otherwise the
\* header is restored, and the key 'grouped_column_name', which save_state
\* never wrote, gives the default str(): group_by_column('') runs
\* ungroup_all() and then raises at setColumnHidden('', True).
LoadState ==
    /\ op' = [name |-> "load_state", column |-> 0, error |-> "TypeError"]
    /\ IF ~settings.saved
       THEN UNCHANGED <<items, topLevel, children, hidden, grouped_column_name,
                        columnHidden, id_to_tree_item, filter_criteria_list,
                        filter_count, target_model_indexes,
                        target_focused_model_indexes, search_input, search_edit,
                        connected, settings, extraction, filter_widgets>>
       ELSE LET restored == [Widget EXCEPT !.columnHidden = settings.header_state]
            IN  Restructured(IF "AdvancedFilterSearch" \in connected
                             THEN ungroup_all(restored, filter_criteria_list)
                             ELSE ungroup_all_body(restored),
                             grouped_column_name # "")
    /\ UNCHANGED before_group

\* a character typed at the end of a keyword string, and the terms
\* _highlight_search extracts from the string
TypeCharacter(c) ==
    LET keyword == Append(extraction.keyword, c)
    IN  /\ Len(extraction.keyword) < MaxKeywordLen
        /\ extraction' = [keyword |-> keyword,
                          quoted_terms |-> extract_quoted_terms(keyword),
                          unquoted_terms |-> extract_unquoted_terms(keyword)]
        /\ op' = [name |-> "extract_terms", column |-> 0]
        /\ UNCHANGED <<items, topLevel, children, hidden, grouped_column_name,
                       columnHidden, id_to_tree_item, filter_criteria_list, filter_count,
                       target_model_indexes, target_focused_model_indexes, search_input,
                       search_edit, connected, settings, filter_widgets, before_group>>

\* MultiSelectFilterWidget.discard_change: restore_checked_state from the
\* saved dictionary, or from an empty one when nothing is saved
discard_change(widgets, filter_widget) ==
    LET popup == widgets.popups[filter_widget]
        checked_state_dict == IF popup.checked_state THEN widgets.checked_state_dict ELSE <<>>
    IN  [widgets EXCEPT !.popups[filter_widget].checked =
             {key \in ItemTexts(filter_widget) :
                  key \in DOMAIN checked_state_dict /\ checked_state_dict[key]}]

\* MultiSelectFilterWidget.save_change: get_checked_state_dict() writes the
\* check state of every item into its default argument and returns it;
\* save_state keeps that dictionary
save_change(widgets, filter_widget) ==
    LET popup == widgets.popups[filter_widget]
    IN  [widgets EXCEPT
             !.checked_state_dict =
                 [key \in ItemTexts(filter_widget) |-> key \in popup.checked] @@ @,
             !.popups[filter_widget].checked_state = TRUE]

\* FilterWidget.hideEvent
hideEvent(widgets, filter_widget) ==
    LET hidden_popup == [widgets EXCEPT !.popups[filter_widget].shown = FALSE]
    IN  IF ~widgets.popups[filter_widget]._is_filter_applied
        THEN discard_change(hidden_popup, filter_widget)
        ELSE [hidden_popup EXCEPT !.popups[filter_widget]._is_filter_applied = FALSE]

\* a step of a filter popup: the tree widget is not involved
FilterWidgetStep(widgets, name) ==
    /\ filter_widgets' = widgets
    /\ op' = [name |-> name, column |-> 0]
    /\ UNCHANGED <<items, topLevel, children, hidden, grouped_column_name, columnHidden,
                   id_to_tree_item, filter_criteria_list, filter_count,
                   target_model_indexes, target_focused_model_indexes, search_input,
                   search_edit, connected, settings, extraction, before_group>>

\* the button of a popup is pressed: its menu opens, which closes any other
ShowPopup(filter_widget) ==
    /\ \A other \in FilterWidgets : ~filter_widgets.popups[other].shown
    /\ FilterWidgetStep([filter_widgets EXCEPT !.popups[filter_widget].shown = TRUE],
                        "showPopup")

\* the user checks or unchecks an item of the shown popup
CheckItem(filter_widget, key) ==
    /\ filter_widgets.popups[filter_widget].shown
    /\ key \in ItemTexts(filter_widget)
    /\ FilterWidgetStep([filter_widgets EXCEPT !.popups[filter_widget].checked =
                             IF key \in @ THEN @ \ {key} ELSE @ \cup {key}],
                        "setCheckState")

\* apply_button.clicked: apply_filter
ApplyFilter(filter_widget) ==
    LET applied == [filter_widgets EXCEPT
                        !.popups[filter_widget]._is_filter_applied = TRUE,
                        !.popups[filter_widget].applied =
                            filter_widgets.popups[filter_widget].checked]
    IN  /\ filter_widgets.popups[filter_widget].shown
        /\ FilterWidgetStep(hideEvent(save_change(applied, filter_widget), filter_widget),
                            "apply_filter")

\* cancel_button.clicked: discard_change, hide_popup
CancelFilter(filter_widget) ==
    /\ filter_widgets.popups[filter_widget].shown
    /\ FilterWidgetStep(hideEvent(discard_change(filter_widgets, filter_widget),
                                  filter_widget),
                        "discard_change")

\* clear_button.clicked: set_filter_applied, clear_state, clear_filter,
\* _emit_clear_signals, hide_popup
ClearFilter(filter_widget) ==
    LET cleared == [filter_widgets EXCEPT
                        !.popups[filter_widget]._is_filter_applied = TRUE,
                        !.popups[filter_widget].checked_state = FALSE,
                        !.popups[filter_widget].checked = {},
                        !.popups[filter_widget].applied = {}]
    IN  /\ filter_widgets.popups[filter_widget].shown
        /\ FilterWidgetStep(hideEvent(cleared, filter_widget), "clear_filter")

\* a click outside the shown popup closes its menu
DismissPopup(filter_widget) ==
    /\ filter_widgets.popups[filter_widget].shown
    /\ FilterWidgetStep(hideEvent(filter_widgets, filter_widget), "hideEvent")

----------------------------------------------------------------------------
(* Grouping alone: a widget built with its rows, then grouped and ungrouped *)

InitGroup == InitRows(MaxRows, ItemData)

NextGroup ==
    \/ \E column \in Columns : GroupByColumn(column)
    \/ UngroupAll

SpecGroup == InitGroup /\ [][NextGroup]_vars

----------------------------------------------------------------------------
(* Filtering: a widget built with its rows, grouped and ungrouped from the   *)
(* header menu while filters are added and removed                           *)

Rule(column, condition, keyword, is_negate, is_case_sensitive) ==
    [column |-> column, condition |-> condition, keyword |-> keyword,
     is_negate |-> is_negate, is_case_sensitive |-> is_case_sensitive]

\* the filters the user adds
FilterRules ==
    {Rule("Name", "contains", <<"b">>, FALSE, FALSE),
     Rule("City", "contains", <<"x">>, FALSE, FALSE),
     Rule("City", "contains", <<"x">>, TRUE, FALSE)}

\* the rows the filters are tried on
FilterItemData == [Name : NameValues, City : {<<>>, <<"x">>}]

InitFilter == InitRows(MaxFilterRows, FilterItemData)

NextFilter ==
    \/ \E column \in Columns : MenuGroupBy(column)
    \/ UngroupAll
    \/ \E filter_criteria \in FilterRules : AddFilter(filter_criteria)
    \/ \E i \in 1 .. Cardinality(FilterRules) : RemoveFilter(i)
    \/ ClearFilters

SpecFilter == InitFilter /\ [][NextFilter]_vars

----------------------------------------------------------------------------
(* One rule and its negation, on flat and grouped trees *)

MatchRules ==
    {Rule("City", "contains", <<"x">>, FALSE, FALSE),
     Rule("City", "contains", <<"x">>, TRUE, FALSE)}

NextMatch ==
    \/ \E column \in Columns : MenuGroupBy(column)
    \/ UngroupAll
    \/ \E filter_criteria \in MatchRules : AddFilter(filter_criteria)
    \/ ClearFilters

SpecMatch == InitFilter /\ [][NextMatch]_vars

----------------------------------------------------------------------------
(* Rows added at any time: an empty widget, rows added one dictionary entry  *)
(* at a time, grouped and ungrouped in between                               *)

Init == InitRows(0, ItemData)

Next ==
    \/ \E item_id \in 1 .. MaxAdds : \E item_data \in ItemData : AddItems(item_id, item_data)
    \/ \E column \in Columns : GroupByColumn(column)
    \/ UngroupAll

Spec == Init /\ [][Next]_vars

----------------------------------------------------------------------------
(* Searching: a widget built with its rows and a SimpleSearchEdit, with or   *)
(* without the AdvancedFilterSearch bar on the same tree, beside another     *)
(* tree widget of the program                                                *)

SearchTexts ==
    {NoText, [term |-> <<"x">>, quoted |-> FALSE], [term |-> <<"a">>, quoted |-> TRUE]}

SearchInputs ==
    {Rule("id", "contains", <<>>, FALSE, FALSE),
     Rule("City", "contains", <<"x">>, FALSE, FALSE)}

SearchRules == {Rule("City", "contains", <<"x">>, FALSE, FALSE)}

InitSearch ==
    \E n \in 1 .. MaxFilterRows : \E id_to_data_dict \in [1 .. n -> FilterItemData] :
        /\ Constructed(n, id_to_data_dict)
        /\ connected \in {{"SimpleSearchEdit"}, {"AdvancedFilterSearch", "SimpleSearchEdit"}}

NextSearch ==
    \/ \E column \in Columns : MenuGroupBy(column)
    \/ UngroupAll
    \/ \E filter_criteria \in SearchRules : AddFilter(filter_criteria)
    \/ ClearFilters
    \/ \E text \in SearchTexts : EditText(text)
    \/ PressEnter
    \/ \E input \in SearchInputs : LiveSearch(input)
    \/ OtherHighlightItems
    \/ OtherClearHighlight

SpecSearch == InitSearch /\ [][NextSearch]_vars

----------------------------------------------------------------------------
(* The applied search: the text of the SimpleSearchEdit edited and applied   *)
(* with Enter on a widget grouped and ungrouped from the header menu         *)

NextApplied ==
    \/ \E column \in Columns : MenuGroupBy(column)
    \/ UngroupAll
    \/ \E text \in SearchTexts : EditText(text)
    \/ PressEnter

SpecApplied == InitSearch /\ [][NextApplied]_vars

----------------------------------------------------------------------------
(* Saved state: a widget grouped and ungrouped from the header menu, its     *)
(* state saved to and loaded from one QSettings group                        *)

NextState ==
    \/ \E column \in Columns : MenuGroupBy(column)
    \/ UngroupAll
    \/ SaveState
    \/ LoadState

SpecState == InitFilter /\ [][NextState]_vars

----------------------------------------------------------------------------
(* Keyword strings: every string of up to MaxKeywordLen characters, typed    *)
(* one character at a time                                                   *)

KeywordCharacters == {DQ, SQ, NL, ",", " ", "a"}

NextTerms == \E c \in KeywordCharacters : TypeCharacter(c)

SpecTerms == Init /\ [][NextTerms]_vars

----------------------------------------------------------------------------
(* Filter popups: two MultiSelectFilterWidget popups shown, edited, applied, *)
(* cancelled, cleared and dismissed in any order                             *)

NextPopup ==
    \E filter_widget \in FilterWidgets :
        \/ ShowPopup(filter_widget)
        \/ \E key \in ItemTexts(filter_widget) : CheckItem(filter_widget, key)
        \/ ApplyFilter(filter_widget)
        \/ CancelFilter(filter_widget)
        \/ ClearFilter(filter_widget)
        \/ DismissPopup(filter_widget)

SpecPopup == Init /\ [][NextPopup]_vars

----------------------------------------------------------------------------
(* Properties of grouping *)

TreeNodes == SeqToSet(get_all_items(Widget))

TreeRows == {n \in TreeNodes : ~IsGroupItem(items[n])}

TreeGroups == {n \in TreeNodes : IsGroupItem(items[n])}

\* the group a row belongs to under column c: its value, or the catch-all
Bucket(n, c) ==
    IF Falsy(UserData(items[n], c)) THEN StrV(OTHERS) ELSE UserData(items[n], c)

RECURSIVE FirstKeys(_, _)
\* the distinct buckets of the rows, in order of first occurrence
FirstKeys(rows, c) ==
    IF rows = <<>> THEN <<>>
    ELSE <<Bucket(Head(rows), c)>>
         \o FirstKeys(SelectFrom(Tail(rows),
                {n \in SeqToSet(rows) : Bucket(n, c) # Bucket(Head(rows), c)}), c)

RowsOfKey(rows, c, key) == SelectFrom(rows, {n \in SeqToSet(rows) : Bucket(n, c) = key})

RECURSIVE ConcatByKey(_, _, _)
ConcatByKey(rows, c, keys) ==
    IF keys = <<>> THEN <<>>
    ELSE RowsOfKey(rows, c, Head(keys)) \o ConcatByKey(rows, c, Tail(keys))

\* the rows rearranged group by group
GroupByGroup(rows, c) == ConcatByKey(rows, c, FirstKeys(rows, c))

IsFlat ==
    /\ grouped_column_name = ""
    /\ TreeGroups = {}
    /\ \A n \in TreeNodes : get_child_level(Widget, n) = 0

\* an ungroup_all has undone a group_by_column(c) that was called on a Flat
\* projection, c a groupable column
RoundTripDone ==
    /\ op.name = "ungroup_all"
    /\ before_group.column >= 1
    /\ before_group.grouped = ""

C3_Levels ==
    /\ grouped_column_name # "" =>
           /\ \A n \in TreeGroups : get_child_level(Widget, n) = 0
           /\ \A n \in TreeRows :
                  /\ get_child_level(Widget, n) = 1
                  /\ Cardinality({g \in TreeGroups : n \in SeqToSet(children[g])}) = 1
                  /\ Cardinality({i \in 1 .. Len(children[Parent(Widget, n)]) :
                                      children[Parent(Widget, n)][i] = n}) = 1
           /\ \A n \in TreeNodes : get_child_level(Widget, n) <= 1
    /\ grouped_column_name = "" =>
           /\ \A n \in DOMAIN items : ~IsGroupItem(items[n])
           /\ \A n \in TreeNodes : get_child_level(Widget, n) = 0

\* grouped on one column straight after being grouped on another
C3_Witness ==
    /\ op.name = "group_by_column"
    /\ before_group.grouped # ""
    /\ before_group.grouped # grouped_column_name
    /\ Cardinality(TreeGroups) = 2
    /\ Cardinality(TreeRows) = 3

\* C9 as stated: after group_by_column(c) the rows with a falsy value in c are
\* exactly the children of the one group keyed '_others', and every other
\* group holds only rows whose value in c is its key.
C9_CatchAll ==
    op.name = "group_by_column" =>
        LET c == op.column
            others == {g \in TreeGroups : UserData(items[g], 0) = StrV(OTHERS)}
        IN  /\ Cardinality(others) <= 1
            /\ {n \in TreeRows : Falsy(UserData(items[n], c))}
                   = UNION {SeqToSet(children[g]) : g \in others}
            /\ \A g \in TreeGroups \ others : \A n \in SeqToSet(children[g]) :
                   UserData(items[n], c) = UserData(items[g], 0)

----------------------------------------------------------------------------
(* Properties of matching and filtering *)

Keywords == {<<"x">>, <<"A", "*">>}

\* every rule over the declared columns and conditions
Rules ==
    {Rule(column, condition, keyword, is_negate, is_case_sensitive) :
        column \in SeqToSet(column_name_list), condition \in Conditions,
        keyword \in Keywords, is_negate \in BOOLEAN, is_case_sensitive \in BOOLEAN}

Matches(rule) == SeqToSet(find_match_items(Widget, rule).items)

LegacyMatches(rule) == SeqToSet(find_match_items_legacy(Widget, rule).items)

NodesAtLevel(level) == {n \in TreeNodes : get_child_level(Widget, n) = level}

RowsAtLevel(level) == {n \in TreeRows : get_child_level(Widget, n) = level}

\* the row ids of the tree, each with the number of row items that carry it
RowIdCount(w, item_id) ==
    Cardinality({n \in SeqToSet(get_all_items(w)) : w.items[n].id = IntV(item_id)})

\* C2 as stated: a group_by_column or ungroup_all call leaves the multiset of
\* row identities in the projection as it was.
C2_RowsConserved ==
    [][op'.name \in {"group_by_column", "ungroup_all"} =>
           \A item_id \in 1 .. MaxRows + MaxAdds :
               RowIdCount(Widget', item_id) = RowIdCount(Widget, item_id)]_vars

\* C4 as stated: a rule on the grouped column returns level-0 group items only,
\* any other rule on a grouped tree level-1 row items only, and a rule on a
\* flat tree level-0 row items only.
C4_ScopeByColumn ==
    \A rule \in Rules :
        /\ (grouped_column_name # "" /\ rule.column = grouped_column_name) =>
               Matches(rule) \subseteq (TreeGroups \cap NodesAtLevel(0))
        /\ (grouped_column_name # "" /\ rule.column # grouped_column_name) =>
               Matches(rule) \subseteq RowsAtLevel(1)
        /\ grouped_column_name = "" => Matches(rule) \subseteq RowsAtLevel(0)

\* C4 amended: the matcher of widgets/advanced_filter_search_widget.py scopes
\* by grouping alone: level-1 row items on a grouped tree, also for a rule on
\* the grouped column, and level-0 row items on a flat tree.  The matcher of
\* AdvancedFilterSearch.py scopes as stated.  Neither mixes levels.
C4_ScopeByGrouping ==
    \A rule \in Rules :
        /\ grouped_column_name # "" => Matches(rule) \subseteq RowsAtLevel(1)
        /\ grouped_column_name = "" => Matches(rule) \subseteq RowsAtLevel(0)
        /\ (grouped_column_name # "" /\ rule.column = grouped_column_name) =>
               LegacyMatches(rule) \subseteq (TreeGroups \cap NodesAtLevel(0))
        /\ (grouped_column_name # "" /\ rule.column # grouped_column_name) =>
               LegacyMatches(rule) \subseteq RowsAtLevel(1)
        /\ grouped_column_name = "" => LegacyMatches(rule) \subseteq RowsAtLevel(0)

\* a filter on the grouped column is in force: it matches rows, where the
\* older matcher matches their group
C4_Witness ==
    /\ grouped_column_name = "City"
    /\ op.name = "add_filter"
    /\ filter_criteria_list = <<Rule("City", "contains", <<"x">>, FALSE, FALSE)>>
    /\ Matches(filter_criteria_list[1]) # {}
    /\ LegacyMatches(filter_criteria_list[1]) # {}
    /\ \E n \in TreeRows : hidden[n]

\* the list _apply_filters shows, for the filters in force
VisibleSet == SeqToSet(intersect_match_items(Widget, filter_criteria_list).items)

\* C5: the visible set is the intersection of the per-rule matches within all
\* items; with no rule it is every item and nothing is hidden.
C5_Intersection ==
    /\ VisibleSet = {n \in TreeNodes : \A i \in 1 .. Len(filter_criteria_list) :
                         n \in Matches(filter_criteria_list[i])}
    /\ filter_criteria_list = <<>> =>
           (VisibleSet = TreeNodes /\ \A n \in TreeNodes : ~hidden[n])

\* two rules in force that match different rows, some row matching both
C5_Witness ==
    /\ Len(filter_criteria_list) = 2
    /\ VisibleSet # {}
    /\ Matches(filter_criteria_list[1]) # Matches(filter_criteria_list[2])
    /\ \E n \in TreeRows : n \notin VisibleSet

\* the orders in which the rules in force can stand in the list
Orders(criteria) ==
    {p \in [1 .. Len(criteria) -> SeqToSet(criteria)] : SeqToSet(p) = SeqToSet(criteria)}

\* C6: applying the rules in force in any order gives the visible set and the
\* hidden flags the widget has, and applying them again changes nothing.
C6_OrderIndependent ==
    \A criteria \in Orders(filter_criteria_list) :
        /\ SeqToSet(intersect_match_items(Widget, criteria).items) = VisibleSet
        /\ _apply_filters(Widget, criteria).hidden = hidden
        /\ _apply_filters(_apply_filters(Widget, criteria), criteria).hidden = hidden

\* two rules that match different rows, added in that order
C6_Witness ==
    /\ op.name = "add_filter"
    /\ Len(filter_criteria_list) = 2
    /\ Matches(filter_criteria_list[1]) # Matches(filter_criteria_list[2])
    /\ \E n, m \in TreeRows : hidden[n] /\ ~hidden[m]

\* C7: an item is visible exactly if it is in the visible set, is the parent
\* of an item of the set or is a child of one; in particular every item of
\* the set is visible and so is its parent.
C7_VisibleIff ==
    /\ \A n \in TreeNodes :
           ~hidden[n] <=> \/ n \in VisibleSet
                          \/ \E m \in VisibleSet : Parent(Widget, m) = n
                          \/ \E m \in VisibleSet : n \in SeqToSet(children[m])
    /\ \A m \in VisibleSet : Parent(Widget, m) # 0 => ~hidden[Parent(Widget, m)]

\* a grouped tree with one group shown for its matching row and one hidden
C7_Witness ==
    /\ grouped_column_name # ""
    /\ filter_criteria_list # <<>>
    /\ \E g, h \in TreeGroups :
           /\ hidden[g] /\ \A n \in SeqToSet(children[g]) : hidden[n]
           /\ ~hidden[h] /\ h \notin VisibleSet
           /\ \E n \in SeqToSet(children[h]) : n \in VisibleSet

Negated(rule) == [rule EXCEPT !.is_negate = ~@]

\* C8: a rule and its negation match disjoint sets whose union is every item
\* at the level the rule is scoped to.
C8_NegateComplement ==
    LET scope == NodesAtLevel(IF grouped_column_name # "" THEN 1 ELSE 0)
    IN  \A rule \in Rules :
            /\ Matches(rule) \cap Matches(Negated(rule)) = {}
            /\ Matches(rule) \cup Matches(Negated(rule)) = scope

\* a rule and its negation both in force on a grouped tree: each matches
\* some rows, together they hide everything
C8_Witness ==
    /\ grouped_column_name # ""
    /\ Len(filter_criteria_list) = 2
    /\ filter_criteria_list[2] = Negated(filter_criteria_list[1])
    /\ Matches(filter_criteria_list[1]) # {}
    /\ Matches(filter_criteria_list[2]) # {}
    /\ \A n \in TreeNodes : hidden[n]

----------------------------------------------------------------------------
(* Properties of rule evaluation *)

\* rules no match can be computed for: a column that is not declared, a
\* condition that is not one of the six, a pattern that is no regular expression
UnusableRules ==
    {Rule("Nope", "contains", <<"x">>, FALSE, FALSE),
     Rule("City", "like", <<"x">>, FALSE, FALSE),
     Rule("City", "reg_exp", <<"*">>, FALSE, FALSE),
     Rule("City", "reg_exp", <<"*">>, TRUE, FALSE)}

\* C14 as stated: for a rule with an undeclared column, an unknown condition
\* or an invalid regular expression find_match_items ends with an error, it
\* does not return a list.
C14_ErrorOutcome ==
    TreeRows # {} =>
        \A rule \in UnusableRules : find_match_items(Widget, rule).error # ""

\* C15 as stated: group_by_column(0) leaves the structure, grouped_column_name
\* and the hidden columns as they were.
C15_ColumnZeroRejected ==
    [][(op'.name = "group_by_column" /\ op'.column = 0) =>
           UNCHANGED <<items, topLevel, children, grouped_column_name, columnHidden>>]_vars

PlainConditions == {"contains", "starts_with", "ends_with", "exact_match"}

PlainKeywords == {<<"x">>, <<"X">>, <<"a">>, <<"A">>}

\* what the condition asks of a text and a keyword
Satisfies(condition, t, k) ==
    CASE condition = "contains" -> Contains(t, k)
      [] condition = "starts_with" -> StartsWith(t, k)
      [] condition = "ends_with" -> EndsWith(t, k)
      [] condition = "exact_match" -> t = k

\* C17 as stated: a rule that is not negated, with one of the four plain
\* conditions, matches exactly the items in scope whose text in the rule's
\* column satisfies the condition, letter case ignored unless the rule is
\* case sensitive.
C17_PlainConditions ==
    LET scope == NodesAtLevel(IF grouped_column_name # "" THEN 1 ELSE 0)
    IN  \A column \in SeqToSet(column_name_list), condition \in PlainConditions,
           keyword \in PlainKeywords, is_case_sensitive \in BOOLEAN :
            Matches(Rule(column, condition, keyword, FALSE, is_case_sensitive))
                = {n \in scope :
                       Satisfies(condition,
                                 Fold(Text(items[n], get_column_index(column)),
                                      is_case_sensitive),
                                 Fold(keyword, is_case_sensitive))}

\* C20 as stated: after add_items calls alone, every id added has exactly one
\* row item in the tree, the one id_to_tree_item holds for it.
C20_UniqueRows ==
    before_group = NoSnapshot =>
        \A item_id \in DOMAIN id_to_tree_item :
            {n \in TreeRows : items[n].id = IntV(item_id)} = {id_to_tree_item[item_id]}

----------------------------------------------------------------------------
(* Properties of the list of filters *)

\* C16: the list of filters never holds two equal rules, and the count that
\* filter_count_changed last carried is the number of rules in the list
C16_NoDuplicateRules ==
    /\ \A i, j \in 1 .. Len(filter_criteria_list) :
           i # j => filter_criteria_list[i] # filter_criteria_list[j]
    /\ filter_count = Len(filter_criteria_list)

\* two filters are in the list and the last add_filter was of one of them
C16_Witness ==
    /\ op.name = "add_filter"
    /\ ~op.emitted
    /\ Len(filter_criteria_list) = 2
    /\ filter_count = 2

----------------------------------------------------------------------------
(* Properties of the highlights *)

\* C18 as stated: every focused cell is one of the highlighted cells
C18_FocusedWithinHighlighted ==
    target_focused_model_indexes \subseteq target_model_indexes

\* the cells of this tree widget among the cells of a list
OwnCells(cells) == {c \in cells : c.tree = 1}

\* C19 as stated: the highlights are kept per widget: what another tree widget
\* does to its highlights leaves the highlighted and the focused cells of
\* this one as they were
C19_PerInstance ==
    [][op'.name \in {"other.highlight_items", "other.clear_highlight"} =>
           /\ OwnCells(target_model_indexes') = OwnCells(target_model_indexes)
           /\ OwnCells(target_focused_model_indexes')
                  = OwnCells(target_focused_model_indexes)]_vars

\* C12 as stated: once a group_by_column or an ungroup_all has been handled,
\* every highlighted and every focused cell of this tree widget is a cell of
\* an item that is in the tree
C12_HighlightsExist ==
    op.name \in {"group_by_column", "ungroup_all"} =>
        \A c \in OwnCells(target_model_indexes \cup target_focused_model_indexes) :
            c.item \in TreeNodes

----------------------------------------------------------------------------
(* Properties of the live search *)

\* C11 as stated: while the search of the SimpleSearchEdit is not applied as
\* a filter, the hidden items are exactly those the rules of the filter list
\* exclude
C11_HiddenByRulesOnly ==
    ~search_edit.is_active =>
        hidden = _apply_filters(Widget, filter_criteria_list).hidden

----------------------------------------------------------------------------
(* Rules that cannot be evaluated: filters added through                     *)
(* FilterTreeWidget.add_filter with any column and condition, and a keyword  *)
(* typed into the bar that is no regular expression                          *)

BadFilterRules ==
    {Rule("Nope", "contains", <<"x">>, FALSE, FALSE),
     Rule("City", "like", <<"x">>, FALSE, FALSE),
     Rule("City", "reg_exp", <<"*">>, FALSE, FALSE),
     Rule("City", "contains", <<"x">>, FALSE, FALSE)}

BadInputs ==
    {Rule("City", "contains", <<"x">>, FALSE, FALSE),
     Rule("City", "reg_exp", <<"*">>, FALSE, FALSE)}

NextBad ==
    \/ \E column \in Columns : MenuGroupBy(column)
    \/ UngroupAll
    \/ \E filter_criteria \in BadFilterRules : AddFilter(filter_criteria)
    \/ ClearFilters
    \/ \E input \in BadInputs : LiveSearch(input)

SpecBad == InitFilter /\ [][NextBad]_vars

\* C13 as stated: a filter application or a live search whose rule cannot be
\* evaluated (undeclared column, unknown condition, keyword that is no regular
\* expression) leaves the hidden flags, the highlighted cells and the focused
\* cells as they were
C13_FailureIsNoOp ==
    [][(\/ /\ op'.name = "add_filter"
           /\ op'.emitted
           /\ filter_criteria_list'[Len(filter_criteria_list')] \in UnusableRules
        \/ /\ op'.name = "_highlight_search"
           /\ search_input' \in UnusableRules)
       => UNCHANGED <<hidden, target_model_indexes, target_focused_model_indexes>>]_vars

----------------------------------------------------------------------------
(* Properties of the saved state *)

\* C21 as stated: load_state after a save_state does not fail and leaves the
\* widget grouped by the column it was grouped by when saved, or flat if it
\* was flat
C21_GroupingRestored ==
    (op.name = "load_state" /\ settings.saved) =>
        /\ op.error = ""
        /\ grouped_column_name = settings.group_column_name

----------------------------------------------------------------------------
(* Properties of the terms of a keyword string *)

\* C22 as stated: there is one reading of which segments of the keyword are
\* quoted under which the quoted terms are the stripped non-empty contents of
\* the quoted segments and the unquoted terms are the non-blank pieces of the
\* text outside the same segments
C22_TermsAgree ==
    \E dotall \in BOOLEAN :
        LET segments == finditer(extraction.keyword, 1, dotall)
        IN  /\ extraction.quoted_terms = QuotedContents(extraction.keyword, segments)
            /\ extraction.unquoted_terms = UnquotedPieces(extraction.keyword, segments)

----------------------------------------------------------------------------
(* Properties of rows added to a grouped widget *)

\* C23 as stated: after a group_by_column or an ungroup_all, the row item of
\* every id of id_to_tree_item is in the tree
C23_RowsNotLost ==
    op.name \in {"group_by_column", "ungroup_all"} =>
        \A item_id \in DOMAIN id_to_tree_item : id_to_tree_item[item_id] \in TreeNodes

----------------------------------------------------------------------------
(* Properties of filtering on flat and grouped widgets *)

\* the row items of a widget that are not hidden
VisibleRows(w) ==
    {n \in SeqToSet(get_all_items(w)) : ~IsGroupItem(w.items[n]) /\ ~w.hidden[n]}

\* the rows the filters leave visible once the widget is ungrouped
FlatVisibleRows == VisibleRows(_apply_filters(ungroup_all_body(Widget), filter_criteria_list))

\* C24: with _apply_filters of widgets/advanced_filter_search_widget.py, the
\* rows left visible are the rows the same filters leave visible on the flat
\* widget, whatever column the widget is grouped by
C24_SameVisibleRows == VisibleRows(Widget) = FlatVisibleRows

\* C24 as stated: the same holds for apply_filters of AdvancedFilterSearch.py
C24_SameVisibleRowsBoth ==
    /\ C24_SameVisibleRows
    /\ VisibleRows(apply_filters_legacy(Widget, filter_criteria_list))
           = VisibleRows(apply_filters_legacy(ungroup_all_body(Widget), filter_criteria_list))

\* grouped by City with a row in the catch-all group, a rule on City and a
\* rule on Name in force, a row left visible and a row hidden
C24_Witness ==
    /\ grouped_column_name = "City"
    /\ \E g \in TreeGroups : Text(items[g], 0) = OTHERS /\ children[g] # <<>>
    /\ \E i, j \in 1 .. Len(filter_criteria_list) :
           filter_criteria_list[i].column = "City" /\ filter_criteria_list[j].column = "Name"
    /\ VisibleRows(Widget) # {}
    /\ VisibleRows(Widget) # TreeRows

----------------------------------------------------------------------------
(* Properties of the hidden flags across regrouping *)

\* C25 as stated: a group_by_column or an ungroup_all, with the slots its
\* signal runs, leaves the hidden flag of every row item as it was
C25_HiddenKept ==
    [][op'.name \in {"group_by_column", "ungroup_all"} =>
           \A n \in TreeRows : hidden'[n] = hidden[n]]_vars

\* C26 as stated: on a grouped widget a group item is visible exactly when one
\* of its child rows is
C26_GroupVisibleIffChild ==
    grouped_column_name # "" =>
        \A g \in TreeGroups :
            ~hidden[g] <=> \E n \in SeqToSet(children[g]) : ~hidden[n]

----------------------------------------------------------------------------
(* Properties of regrouping *)

\* the groups of a widget in order, each with its key and its rows in order
GroupList(w) ==
    [k \in 1 .. Len(w.topLevel) |->
         [key |-> UserData(w.items[w.topLevel[k]], 0),
          rows |-> w.children[w.topLevel[k]]]]

\* the rows of a widget, partitioned by their values in column c
PartitionByValue(w, c) ==
    LET rows == SeqToSet(RowsOf(w))
    IN  {{n \in rows : GroupKey(UserData(w.items[n], c)) = GroupKey(UserData(w.items[m], c))} :
            m \in rows}

\* C27: group_by_column(d) leaves the rows partitioned into groups by their
\* values in d alone, whatever the grouping before; on a widget already
\* grouped by d it leaves the same groups in the same order with the same
\* rows in the same order
C27_HistoryIndependent ==
    [][op'.name = "group_by_column" =>
           /\ {SeqToSet(children'[g]) : g \in SeqToSet(topLevel')}
                  = PartitionByValue(Widget', op'.column)
           /\ grouped_column_name = column_name_list[op'.column + 1] =>
                  GroupList(Widget') = GroupList(Widget)]_vars

\* regrouped by the column the widget was grouped by: two groups, one of them
\* with two rows
C27_Witness ==
    /\ op.name = "group_by_column"
    /\ before_group.grouped = grouped_column_name
    /\ Len(topLevel) = 2
    /\ \E g \in TreeGroups : Len(children[g]) = 2

----------------------------------------------------------------------------
(* Properties of the applied search *)

\* the items of a widget that one column of matches the text of the search
\* edit: the whole text of the column for a quoted term, a part of it for
\* any other, letter case ignored
TextMatches(w, text) ==
    IF text.term = <<>> THEN {}
    ELSE {n \in SeqToSet(get_all_items(w)) :
             \E column \in Columns :
                 IF text.quoted
                 THEN LowerStr(Text(w.items[n], column)) = LowerStr(text.term)
                 ELSE Contains(LowerStr(Text(w.items[n], column)), LowerStr(text.term))}

\* C28: the search becomes applied only by an Enter pressed while there are
\* matches, an Enter without matches changes nothing, and a change of the
\* text leaves the search not applied, every item visible if it was applied,
\* and the matches those of the new text
C28_ActiveOnlyWithMatches ==
    [][/\ (search_edit'.is_active /\ ~search_edit.is_active) =>
              (op'.name = "set_active"
                   /\ (search_edit.matches # {} \/ search_edit.removed_matches))
       /\ (op'.name = "set_active" /\ search_edit.matches = {}
               /\ ~search_edit.removed_matches) =>
              UNCHANGED <<hidden, search_edit, target_model_indexes,
                          target_focused_model_indexes>>
       /\ op'.name = "editTextChanged" =>
              /\ ~search_edit'.is_active
              /\ search_edit'.matches = TextMatches(Widget', search_edit'.text)
              /\ search_edit.is_active =>
                     \A n \in SeqToSet(get_all_items(Widget')) : ~hidden'[n]]_vars

\* the text was changed while the search was applied with a row hidden, and
\* the new text has matches
C28_Witness ==
    /\ op.name = "editTextChanged"
    /\ op.was_active
    /\ search_edit.matches # {}
    /\ search_edit.matches # TreeNodes

----------------------------------------------------------------------------
(* Properties of the filter popups *)

\* C29 as stated: while a popup is hidden, the items checked in it are those
\* checked at its own last Apply, none if it was never applied or was cleared
\* since, and its _is_filter_applied is false, so that it is false whenever
\* the popup is shown again
C29_SelectionIsLastApplied ==
    \A filter_widget \in FilterWidgets :
        LET popup == filter_widgets.popups[filter_widget]
        IN  ~popup.shown => (popup.checked = popup.applied /\ ~popup._is_filter_applied)

----------------------------------------------------------------------------
(* Properties of grouping a widget that has no rows *)

\* C30 as stated: group_by_column on a widget without rows creates no group
\* item and changes nothing: grouped_column_name stays empty and every
\* column stays as visible as it was
C30_EmptyIsNoOp ==
    [][(op'.name = "group_by_column" /\ TreeRows = {} /\ grouped_column_name = "")
           => /\ TreeGroups' = {}
              /\ grouped_column_name' = ""
              /\ columnHidden' = columnHidden]_vars

====
